---- MODULE Spec2Model ----
(***************************************************************************)
(* Voice assistant (patil.ai): the remote-variant conversation controller  *)
(* (VoiceAssistant component calling the `chat` edge function), the chat   *)
(* proxy itself, and the local variant with its keyword response engine.   *)
(*                                                                         *)
(* Text is modelled as a sequence of one-character strings so that         *)
(* String.prototype.includes is a real substring test.                     *)
(***************************************************************************)
EXTENDS Integers, Sequences, FiniteSets, TLC

\* ------------------------------------------------------------------ bounds
\* engine calls started in one session
MaxCalls == 2
\* longest conversationHistory a proxy request carries
MaxHistory == 11

\* ------------------------------------------------------- string constants
ApiKeyNeedle ==
  <<"A","P","I"," ","k","e","y">>
KeyNotConfigured ==
  <<"O","p","e","n","A","I"," ","A","P","I"," ","k","e","y"," ","n","o","t"," ","c","o","n","f","i","g","u","r","e","d">>
GenericError ==
  <<"I","'","m"," ","s","o","r","r","y",","," ","I"," ","e","n","c","o","u","n","t","e","r","e","d"," ","a","n"," ","e","r","r","o","r"," ","p","r","o","c","e","s","s","i","n","g"," ","y","o","u","r"," ","r","e","q","u","e","s","t",".">>
ApiKeyError ==
  <<"I"," ","n","e","e","d"," ","a","n"," ","O","p","e","n","A","I"," ","A","P","I"," ","k","e","y"," ","t","o"," ","p","r","o","v","i","d","e"," ","i","n","t","e","l","l","i","g","e","n","t"," ","r","e","s","p","o","n","s","e","s","."," ","P","l","e","a","s","e"," ","c","o","n","f","i","g","u","r","e"," ","y","o","u","r"," ","A","P","I"," ","k","e","y"," ","t","o"," ","c","o","n","t","i","n","u","e",".">>
ProxyApology ==
  <<"I","'","m"," ","s","o","r","r","y",","," ","I","'","m"," ","h","a","v","i","n","g"," ","t","r","o","u","b","l","e"," ","p","r","o","c","e","s","s","i","n","g"," ","y","o","u","r"," ","r","e","q","u","e","s","t"," ","r","i","g","h","t"," ","n","o","w","."," ","P","l","e","a","s","e"," ","t","r","y"," ","a","g","a","i","n",".">>
UpstreamErrorPrefix ==
  <<"O","p","e","n","A","I"," ","A","P","I"," ","e","r","r","o","r",":"," ">>
NoResponseFromAI ==
  <<"N","o"," ","r","e","s","p","o","n","s","e"," ","f","r","o","m"," ","A","I">>
OkText ==
  <<"o","k">>
\* opening sentence of the fixed system instruction
NovaPrompt ==
  <<"Y","o","u"," ","a","r","e"," ","N","o","v","a",","," ","a","n"," ","a","d","v","a","n","c","e","d"," ","A","I"," ","v","o","i","c","e"," ","a","s","s","i","s","t","a","n","t",".">>

\* messages of the platform exceptions the proxy's try block can raise
JsonSyntaxError ==
  <<"U","n","e","x","p","e","c","t","e","d"," ","e","n","d"," ","o","f"," ","J","S","O","N"," ","i","n","p","u","t">>
DestructureError ==
  <<"C","a","n","n","o","t"," ","d","e","s","t","r","u","c","t","u","r","e"," ","p","r","o","p","e","r","t","y"," ","'","m","e","s","s","a","g","e","'"," ","o","f"," ","n","u","l","l">>
SliceTypeError ==
  <<"C","a","n","n","o","t"," ","r","e","a","d"," ","p","r","o","p","e","r","t","i","e","s"," ","o","f"," ","n","u","l","l"," ","(","r","e","a","d","i","n","g"," ","'","s","l","i","c","e","'",")">>
ChoicesTypeError ==
  <<"C","a","n","n","o","t"," ","r","e","a","d"," ","p","r","o","p","e","r","t","i","e","s"," ","o","f"," ","u","n","d","e","f","i","n","e","d"," ","(","r","e","a","d","i","n","g"," ","'","0","'",")">>
FetchFailed ==
  <<"e","r","r","o","r"," ","s","e","n","d","i","n","g"," ","r","e","q","u","e","s","t">>
\* message of the error object functions.invoke returns on a transport failure
FunctionsFetchError ==
  <<"F","a","i","l","e","d"," ","t","o"," ","s","e","n","d"," ","a"," ","r","e","q","u","e","s","t"," ","t","o"," ","t","h","e"," ","E","d","g","e"," ","F","u","n","c","t","i","o","n">>

\* sample texts: what the user says, what the model answers
Hello ==
  <<"h","e","l","l","o">>
Fine ==
  <<"f","i","n","e">>
SetApiKey ==
  <<"s","e","t"," ","a","n"," ","A","P","I"," ","k","e","y">>

\* ---------------------------------------------------------- JS primitives
Null == [tag |-> "null"]
Undefined == [tag |-> "undefined"]

\* String.prototype.includes
Includes(s, sub) ==
  \E i \in 0..(Len(s) - Len(sub)) : SubSeq(s, i + 1, i + Len(sub)) = sub

\* Array.prototype.slice(start) with one argument
Slice(arr, start) ==
  LET n == Len(arr)
      k == IF start < 0
           THEN (IF n + start < 0 THEN 0 ELSE n + start)
           ELSE (IF start > n THEN n ELSE start)
  IN SubSeq(arr, k + 1, n)

Digit(d) ==
  <<"0","1","2","3","4","5","6","7","8","9">>[d + 1]

RECURSIVE NumberToString(_)
\* decimal rendering of a non-negative integer inside a template literal
NumberToString(n) ==
  IF n < 10 THEN <<Digit(n)>> ELSE NumberToString(n \div 10) \o <<Digit(n % 10)>>

\* ============================================================ chat proxy
corsHeaders ==
  ("Access-Control-Allow-Origin" :> "*") @@
  ("Access-Control-Allow-Headers" :> "authorization, x-client-info, apikey, content-type")

jsonHeaders ==
  corsHeaders @@ ("Content-Type" :> "application/json")

\* JS falsiness of an optional string
Falsy(v) ==
  v = Undefined \/ v = Null \/ v = [tag |-> "string", value |-> <<>>]

\* variant: only an empty secret counts as missing
KeyMissingOnlyEmpty(openaiApiKey) ==
  openaiApiKey = [tag |-> "string", value |-> <<>>]

\* !openaiApiKey : an unset or empty secret is falsy
KeyMissing(openaiApiKey) ==
  Falsy(openaiApiKey)

\* variant: keeps the first ten entries instead of the last ten
messagesFirstTen(message, history) ==
  <<[role |-> "system", content |-> NovaPrompt]>>
    \o SubSeq(history, 1, IF Len(history) < 10 THEN Len(history) ELSE 10)
    \o <<[role |-> "user", content |-> message]>>

\* the message list of the upstream call
messages(message, history) ==
  <<[role |-> "system", content |-> NovaPrompt]>>
    \o Slice(history, -10)
    \o <<[role |-> "user", content |-> message]>>

\* the body of the upstream request
upstreamBody(msgs) ==
  [model |-> "gpt-4o", messages |-> msgs, max_tokens |-> 300,
   temperature |-> 7, presence_penalty |-> 6, frequency_penalty |-> 3]

\* variant: only status 200 counts as success
ResponseOkOnly200(status) ==
  status = 200

\* response.ok
ResponseOk(status) ==
  status \in 200..299

\* data.choices[0]?.message?.content ; "threw" when data.choices is undefined
Content(data) ==
  IF data.tag = "nochoices" THEN [threw |-> TRUE]
  ELSE IF Len(data.choices) = 0 THEN [threw |-> FALSE, value |-> Undefined]
  ELSE [threw |-> FALSE, value |-> data.choices[1]]

Threw(msg, fetched) ==
  [threw |-> TRUE, message |-> msg, fetched |-> fetched]

\* the try block: either throws an Error (message) or yields aiResponse;
\* fetched is the list of upstream requests made on the way
tryBlock(req, openaiApiKey, upstream) ==
  IF req.body.json = "invalid" THEN Threw(JsonSyntaxError, <<>>)
  ELSE IF req.body.json = "null" THEN Threw(DestructureError, <<>>)
  ELSE IF KeyMissing(openaiApiKey) THEN Threw(KeyNotConfigured, <<>>)
  ELSE
    LET given == req.body.conversationHistory
        history == IF given = Undefined THEN <<>> ELSE given.items
    IN
    IF given = Null THEN Threw(SliceTypeError, <<>>)
    ELSE
      LET msgs == messages(req.body.message, history)
          fetched == <<upstreamBody(msgs)>>
      IN
      IF upstream.kind = "network" THEN Threw(FetchFailed, fetched)
      ELSE IF ~ResponseOk(upstream.status)
      THEN Threw(UpstreamErrorPrefix \o NumberToString(upstream.status), fetched)
      ELSE
        LET c == Content(upstream.data) IN
        IF c.threw THEN Threw(ChoicesTypeError, fetched)
        ELSE IF Falsy(c.value) THEN Threw(NoResponseFromAI, fetched)
        ELSE [threw |-> FALSE, aiResponse |-> c.value.value, fetched |-> fetched]

\* variant: the catch block answers with status 500
serveStatus500(req, openaiApiKey, upstream) ==
  IF req.method = "OPTIONS"
  THEN [status |-> 200, headers |-> corsHeaders, body |-> [text |-> OkText],
        fetched |-> <<>>]
  ELSE
    LET r == tryBlock(req, openaiApiKey, upstream) IN
    IF r.threw
    THEN [status |-> 500, headers |-> jsonHeaders,
          body |-> [error |-> r.message, response |-> ProxyApology, success |-> FALSE],
          fetched |-> r.fetched]
    ELSE [status |-> 200, headers |-> jsonHeaders,
          body |-> [response |-> r.aiResponse, success |-> TRUE],
          fetched |-> r.fetched]

\* variant: the preflight test sits inside the try block, after req.json()
serveParsesFirst(req, openaiApiKey, upstream) ==
  LET r == tryBlock(req, openaiApiKey, upstream) IN
  IF req.body.json = "object" /\ req.method = "OPTIONS"
  THEN [status |-> 200, headers |-> corsHeaders, body |-> [text |-> OkText],
        fetched |-> <<>>]
  ELSE IF r.threw
  THEN [status |-> 200, headers |-> jsonHeaders,
        body |-> [error |-> r.message, response |-> ProxyApology, success |-> FALSE],
        fetched |-> r.fetched]
  ELSE [status |-> 200, headers |-> jsonHeaders,
        body |-> [response |-> r.aiResponse, success |-> TRUE],
        fetched |-> r.fetched]

\* the request handler: the HTTP response and the upstream requests it made
serve(req, openaiApiKey, upstream) ==
  IF req.method = "OPTIONS"
  THEN [status |-> 200, headers |-> corsHeaders, body |-> [text |-> OkText],
        fetched |-> <<>>]
  ELSE
    LET r == tryBlock(req, openaiApiKey, upstream) IN
    IF r.threw
    THEN [status |-> 200, headers |-> jsonHeaders,
          body |-> [error |-> r.message, response |-> ProxyApology, success |-> FALSE],
          fetched |-> r.fetched]
    ELSE [status |-> 200, headers |-> jsonHeaders,
          body |-> [response |-> r.aiResponse, success |-> TRUE],
          fetched |-> r.fetched]

\* ================================================== local response engine
Greeting ==
  <<"H","e","l","l","o","!"," ","I","'","m"," ","y","o","u","r"," ","p","e","r","s","o","n","a","l"," ","v","o","i","c","e"," ","a","s","s","i","s","t","a","n","t","."," ","H","o","w"," ","c","a","n"," ","I"," ","h","e","l","p"," ","y","o","u"," ","t","o","d","a","y","?">>
TimePrefix ==
  <<"T","h","e"," ","c","u","r","r","e","n","t"," ","t","i","m","e"," ","i","s"," ">>
DatePrefix ==
  <<"T","o","d","a","y"," ","i","s"," ">>
WeatherReply ==
  <<"I","'","d"," ","l","o","v","e"," ","t","o"," ","h","e","l","p"," ","w","i","t","h"," ","t","h","e"," ","w","e","a","t","h","e","r",","," ","b","u","t"," ","I"," ","n","e","e","d"," ","t","o"," ","b","e"," ","c","o","n","n","e","c","t","e","d"," ","t","o"," ","a"," ","w","e","a","t","h","e","r"," ","s","e","r","v","i","c","e","."," ","F","o","r"," ","n","o","w",","," ","I"," ","r","e","c","o","m","m","e","n","d"," ","c","h","e","c","k","i","n","g"," ","y","o","u","r"," ","l","o","c","a","l"," ","w","e","a","t","h","e","r"," ","a","p","p",".">>
ReminderReply ==
  <<"I","'","v","e"," ","n","o","t","e","d"," ","y","o","u","r"," ","r","e","m","i","n","d","e","r"," ","r","e","q","u","e","s","t","."," ","I","n"," ","a"," ","f","u","l","l"," ","i","m","p","l","e","m","e","n","t","a","t","i","o","n",","," ","I"," ","w","o","u","l","d"," ","s","e","t"," ","u","p"," ","n","o","t","i","f","i","c","a","t","i","o","n","s"," ","f","o","r"," ","y","o","u",".">>
MusicReply ==
  <<"I","'","d"," ","b","e"," ","h","a","p","p","y"," ","t","o"," ","p","l","a","y"," ","m","u","s","i","c"," ","f","o","r"," ","y","o","u","."," ","I","n"," ","a"," ","f","u","l","l"," ","i","m","p","l","e","m","e","n","t","a","t","i","o","n",","," ","I"," ","w","o","u","l","d"," ","c","o","n","n","e","c","t"," ","t","o"," ","y","o","u","r"," ","m","u","s","i","c"," ","s","t","r","e","a","m","i","n","g"," ","s","e","r","v","i","c","e",".">>
CalculateReply ==
  <<"I"," ","c","a","n"," ","h","e","l","p"," ","w","i","t","h"," ","c","a","l","c","u","l","a","t","i","o","n","s","."," ","T","r","y"," ","a","s","k","i","n","g"," ","m","e"," ","s","p","e","c","i","f","i","c"," ","m","a","t","h"," ","q","u","e","s","t","i","o","n","s"," ","l","i","k","e"," ","'","w","h","a","t"," ","i","s"," ","2","5"," ","t","i","m","e","s"," ","4","?","'">>
SearchReply ==
  <<"I"," ","c","a","n"," ","h","e","l","p"," ","y","o","u"," ","s","e","a","r","c","h"," ","f","o","r"," ","i","n","f","o","r","m","a","t","i","o","n","."," ","I","n"," ","a"," ","f","u","l","l"," ","i","m","p","l","e","m","e","n","t","a","t","i","o","n",","," ","I"," ","w","o","u","l","d"," ","p","e","r","f","o","r","m"," ","w","e","b"," ","s","e","a","r","c","h","e","s"," ","a","n","d"," ","p","r","o","v","i","d","e"," ","r","e","s","u","l","t","s",".">>
FallbackPrefix ==
  <<"I"," ","h","e","a","r","d"," ","y","o","u"," ","s","a","y",":"," ","'">>
FallbackSuffix ==
  <<"'","."," ","I","'","m"," ","s","t","i","l","l"," ","l","e","a","r","n","i","n","g",","," ","b","u","t"," ","I"," ","c","a","n"," ","h","e","l","p"," ","w","i","t","h"," ","t","i","m","e",","," ","d","a","t","e",","," ","s","i","m","p","l","e"," ","m","a","t","h",","," ","a","n","d"," ","b","a","s","i","c"," ","c","o","m","m","a","n","d","s","."," ","W","h","a","t"," ","w","o","u","l","d"," ","y","o","u"," ","l","i","k","e"," ","m","e"," ","t","o"," ","d","o","?">>
WhatIs ==
  <<"w","h","a","t"," ","i","s"," ">>
Plus ==
  <<"p","l","u","s">>
Minus ==
  <<"m","i","n","u","s">>
Times ==
  <<"t","i","m","e","s">>
DividedBy ==
  <<"d","i","v","i","d","e","d"," ","b","y">>
Equals ==
  <<" ","e","q","u","a","l","s"," ">>
InfinityText ==
  <<"I","n","f","i","n","i","t","y">>
NaNText ==
  <<"N","a","N">>
KwHello ==
  <<"h","e","l","l","o">>
KwHi ==
  <<"h","i">>
KwTime ==
  <<"t","i","m","e">>
KwDate ==
  <<"d","a","t","e">>
KwWeather ==
  <<"w","e","a","t","h","e","r">>
KwRemind ==
  <<"r","e","m","i","n","d">>
KwReminder ==
  <<"r","e","m","i","n","d","e","r">>
KwPlayMusic ==
  <<"p","l","a","y"," ","m","u","s","i","c">>
KwPlaySong ==
  <<"p","l","a","y"," ","s","o","n","g">>
KwCalculate ==
  <<"c","a","l","c","u","l","a","t","e">>
KwMath ==
  <<"m","a","t","h">>
KwSearch ==
  <<"s","e","a","r","c","h">>
KwLookUp ==
  <<"l","o","o","k"," ","u","p">>
MorningTime ==
  <<"9",":","0","5",":","0","7"," ","A","M">>
EveningTime ==
  <<"6",":","3","0",":","0","0"," ","P","M">>
SundayDate ==
  <<"S","u","n","d","a","y",","," ","N","o","v","e","m","b","e","r"," ","1",","," ","2","0","2","6">>
MondayDate ==
  <<"M","o","n","d","a","y",","," ","N","o","v","e","m","b","e","r"," ","2",","," ","2","0","2","6">>

UpperCase ==
  <<"A","B","C","D","E","F","G","H","I","J","K","L","M",
    "N","O","P","Q","R","S","T","U","V","W","X","Y","Z">>

LowerCase ==
  <<"a","b","c","d","e","f","g","h","i","j","k","l","m",
    "n","o","p","q","r","s","t","u","v","w","x","y","z">>

\* String.prototype.toLowerCase on ASCII text
ToLowerCase(s) ==
  [i \in 1..Len(s) |->
     IF \E u \in 1..26 : UpperCase[u] = s[i]
     THEN LowerCase[CHOOSE u \in 1..26 : UpperCase[u] = s[i]]
     ELSE s[i]]

\* \d
IsDigit(c) ==
  \E d \in 0..9 : Digit(d) = c

RECURSIVE DigitRun(_, _)
\* \d+ at position i: the length of the longest run of digits from there
DigitRun(s, i) ==
  IF i <= Len(s) /\ IsDigit(s[i]) THEN 1 + DigitRun(s, i + 1) ELSE 0

\* the literal lit stands at position i of s
StartsAt(s, i, lit) ==
  /\ i + Len(lit) - 1 <= Len(s)
  /\ SubSeq(s, i, i + Len(lit) - 1) = lit

\* (plus|minus|times|divided by)
Operations ==
  <<Plus, Minus, Times, DividedBy>>

\* /what is (\d+) (plus|minus|times|divided by) (\d+)/ tried at position i:
\* the capture groups, or Null
MatchAt(s, i) ==
  LET j == i + Len(WhatIs)
      n1 == DigitRun(s, j)
      k == j + n1
      ops == {o \in 1..Len(Operations) :
                StartsAt(s, k, <<" ">> \o Operations[o] \o <<" ">>)}
  IN IF StartsAt(s, i, WhatIs) /\ n1 >= 1 /\ ops # {}
     THEN LET o == CHOOSE x \in ops : TRUE
              m == k + Len(Operations[o]) + 2
              n2 == DigitRun(s, m)
          IN IF n2 >= 1
             THEN [num1 |-> SubSeq(s, j, k - 1),
                   operation |-> Operations[o],
                   num2 |-> SubSeq(s, m, m + n2 - 1)]
             ELSE Null
     ELSE Null

\* String.prototype.match with that pattern: the leftmost match, or Null
mathMatch(s) ==
  LET hits == {i \in 1..Len(s) : MatchAt(s, i) # Null}
  IN IF hits = {}
     THEN Null
     ELSE MatchAt(s, CHOOSE i \in hits : \A h \in hits : i <= h)

RECURSIVE parseInt(_)
\* parseInt of a run of decimal digits
parseInt(digits) ==
  IF Len(digits) = 0
  THEN 0
  ELSE parseInt(SubSeq(digits, 1, Len(digits) - 1)) * 10
       + (CHOOSE d \in 0..9 : Digit(d) = digits[Len(digits)])

\* a Number that is a ratio of two integers, or NaN, or Infinity
Number(n, d) ==
  [n |-> n, d |-> d]

\* the switch on the operation
operationResult(a, operation, b) ==
  IF operation = Plus THEN Number(a + b, 1)
  ELSE IF operation = Minus THEN Number(a - b, 1)
  ELSE IF operation = Times THEN Number(a * b, 1)
  ELSE Number(a, b)

RECURSIVE Fraction(_, _, _)
\* the digits after the decimal point of r / d, for a quotient that terminates
\* within the 16 digits a double prints
Fraction(r, d, room) ==
  IF r = 0 \/ room = 0
  THEN <<>>
  ELSE <<Digit((r * 10) \div d)>> \o Fraction((r * 10) % d, d, room - 1)

\* Number::toString in a template literal
NumberText(x) ==
  IF x.d = 0 THEN (IF x.n = 0 THEN NaNText ELSE InfinityText)
  ELSE IF x.n < 0 THEN <<"-">> \o NumberToString((0 - x.n) \div x.d)
  ELSE IF x.n % x.d = 0 THEN NumberToString(x.n \div x.d)
  ELSE NumberToString(x.n \div x.d) \o <<".">> \o Fraction(x.n % x.d, x.d, 16)

\* variant: the pattern is tried before the keywords
generateResponseMathFirst(command, clock) ==
  LET m == mathMatch(command) IN
  IF m # Null
  THEN LET a == parseInt(m.num1)
           b == parseInt(m.num2)
       IN NumberToString(a) \o <<" ">> \o m.operation \o <<" ">>
          \o NumberToString(b) \o Equals
          \o NumberText(operationResult(a, m.operation, b)) \o <<".">>
  ELSE IF Includes(command, KwHello) \/ Includes(command, KwHi)
  THEN Greeting
  ELSE IF Includes(command, KwTime)
  THEN TimePrefix \o clock.time \o <<".">>
  ELSE IF Includes(command, KwDate)
  THEN DatePrefix \o clock.date \o <<".">>
  ELSE IF Includes(command, KwWeather)
  THEN WeatherReply
  ELSE IF Includes(command, KwRemind) \/ Includes(command, KwReminder)
  THEN ReminderReply
  ELSE IF Includes(command, KwPlayMusic) \/ Includes(command, KwPlaySong)
  THEN MusicReply
  ELSE IF Includes(command, KwCalculate) \/ Includes(command, KwMath)
  THEN CalculateReply
  ELSE IF Includes(command, KwSearch) \/ Includes(command, KwLookUp)
  THEN SearchReply
  ELSE FallbackPrefix \o command \o FallbackSuffix

\* clock: what toLocaleTimeString and toLocaleDateString give for new Date()
generateResponse(command, clock) ==
  IF Includes(command, KwHello) \/ Includes(command, KwHi)
  THEN Greeting
  ELSE IF Includes(command, KwTime)
  THEN TimePrefix \o clock.time \o <<".">>
  ELSE IF Includes(command, KwDate)
  THEN DatePrefix \o clock.date \o <<".">>
  ELSE IF Includes(command, KwWeather)
  THEN WeatherReply
  ELSE IF Includes(command, KwRemind) \/ Includes(command, KwReminder)
  THEN ReminderReply
  ELSE IF Includes(command, KwPlayMusic) \/ Includes(command, KwPlaySong)
  THEN MusicReply
  ELSE IF Includes(command, KwCalculate) \/ Includes(command, KwMath)
  THEN CalculateReply
  ELSE IF Includes(command, KwSearch) \/ Includes(command, KwLookUp)
  THEN SearchReply
  ELSE LET m == mathMatch(command) IN
       IF m # Null
       THEN LET a == parseInt(m.num1)
                b == parseInt(m.num2)
            IN NumberToString(a) \o <<" ">> \o m.operation \o <<" ">>
               \o NumberToString(b) \o Equals
               \o NumberText(operationResult(a, m.operation, b)) \o <<".">>
       ELSE FallbackPrefix \o command \o FallbackSuffix

\* processCommand: let responseText = generateResponse(command.toLowerCase())
responseText(command, clock) ==
  generateResponse(ToLowerCase(command), clock)

\* ============================================= conversation controller
VARIABLES
  isListening, isProcessing, transcript, response, isSupported,
  conversationHistory, needsApiKey,
  \* conversationHistory as closed over by the processCommand that the
  \* mount effect handed to onresult
  capturedHistory,
  \* session state of the SpeechRecognition object ("null" when unsupported)
  recognition,
  \* synthRef.current is set
  synthRef,
  \* utterances queued on speechSynthesis, oldest first
  spoken,
  \* title of the last toast
  toast,
  \* functions.invoke calls not yet resolved
  pending,
  \* the event handled by the last step
  event,
  \* engine calls started so far
  exchanges,
  \* one run of the proxy: its inputs and its answer
  proxyRequest, proxyKey, proxyUpstream, proxyResponse,
  \* which VoiceAssistant component is mounted: "remote" or "local"
  variant,
  \* one call of the local engine: the command, new Date(), and the reply
  heard, now, reply

ctlVars ==
  <<isListening, isProcessing, transcript, response, isSupported,
    conversationHistory, needsApiKey, capturedHistory, recognition, synthRef,
    spoken, toast, pending, event, exchanges>>

proxyVars ==
  <<proxyRequest, proxyKey, proxyUpstream, proxyResponse>>

engineVars ==
  <<variant, heard, now, reply>>

vars ==
  <<isListening, isProcessing, transcript, response, isSupported,
    conversationHistory, needsApiKey, capturedHistory, recognition, synthRef,
    spoken, toast, pending, event, exchanges,
    proxyRequest, proxyKey, proxyUpstream, proxyResponse,
    variant, heard, now, reply>>

\* ------------------------------------------------------------ input sets
\* what the recognizer may hear
Transcripts ==
  {<<>>, Hello}

\* what the model may answer
Completions ==
  {Fine, SetApiKey}

\* values of the OPENAI_API_KEY secret
Keys ==
  {Undefined, [tag |-> "string", value |-> <<>>],
   [tag |-> "string", value |-> <<"s","k">>]}

\* HTTP statuses of the upstream service
Statuses ==
  {200, 201, 401, 500}

\* parsed bodies of an upstream answer
UpstreamData ==
  {[tag |-> "nochoices"], [tag |-> "choices", choices |-> <<>>],
   [tag |-> "choices", choices |-> <<Undefined>>]}
  \cup {[tag |-> "choices", choices |-> <<[tag |-> "string", value |-> t]>>] :
          t \in {<<>>} \cup Completions}

\* what the upstream call can do
Upstreams ==
  {[kind |-> "network"]}
  \cup {[kind |-> "http", status |-> s, data |-> d] :
          s \in Statuses, d \in UpstreamData}

\* operands of a spoken sum
Operands ==
  {0, 4, 10, 25}

\* "what is a <operation> b" as the recognizer spells it
ArithmeticCommand(a, operation, b) ==
  WhatIs \o NumberToString(a) \o <<" ">> \o operation \o <<" ">>
  \o NumberToString(b)

\* things a user may say, as the recognizer spells them
SampleCommands ==
  {<<"H","e","l","l","o"," ","t","h","e","r","e">>,
   <<"H","E","L","L","O">>,
   <<"h","i">>,
   <<"t","h","i","s">>,
   <<"s","o","m","e","t","h","i","n","g"," ","e","l","s","e">>,
   <<"w","h","a","t"," ","t","i","m","e"," ","i","s"," ","i","t">>,
   <<"W","h","a","t","'","s"," ","t","h","e"," ","d","a","t","e">>,
   <<"u","p","d","a","t","e"," ","m","e">>,
   <<"w","e","a","t","h","e","r"," ","t","o","d","a","y">>,
   <<"r","e","m","i","n","d"," ","m","e"," ","t","o"," ","c","a","l","l">>,
   <<"s","e","t"," ","a"," ","r","e","m","i","n","d","e","r">>,
   <<"p","l","a","y"," ","m","u","s","i","c">>,
   <<"p","l","a","y"," ","s","o","n","g">>,
   <<"c","a","l","c","u","l","a","t","e"," ","t","h","i","s">>,
   <<"m","a","t","h">>,
   <<"s","e","a","r","c","h"," ","c","a","t","s">>,
   <<"l","o","o","k"," ","u","p"," ","c","a","t","s">>,
   <<"t","e","l","l"," ","m","e"," ","a"," ","j","o","k","e">>,
   <<>>,
   <<"h","e","l","l","o",","," ","w","h","a","t"," ","t","i","m","e"," ","i","s"," ","i","t">>,
   <<"t","i","m","e"," ","a","n","d"," ","d","a","t","e">>,
   <<"W","h","a","t"," ","i","s"," ","2","5"," ","t","i","m","e","s"," ","4">>,
   <<"c","a","l","c","u","l","a","t","e"," ","w","h","a","t"," ","i","s"," ","2"," ","p","l","u","s"," ","2">>,
   <<"s","e","a","r","c","h"," ","w","h","a","t"," ","i","s"," ","2"," ","p","l","u","s"," ","2">>,
   <<"s","o"," ","w","h","a","t"," ","i","s"," ","7"," ","m","i","n","u","s"," ","9"," ","t","h","e","n">>,
   <<"w","h","a","t"," ","i","s"," ","0","0","7"," ","p","l","u","s"," ","1">>,
   <<"w","h","a","t"," ","i","s"," ","x"," ","p","l","u","s"," ","1">>,
   <<"w","h","a","t"," ","i","s"," ","2","5"," ","t","i","m","e","s">>}

\* what the local engine may be asked
EngineInputs ==
  SampleCommands
  \cup {ArithmeticCommand(a, Operations[o], b) :
          a \in Operands, o \in 1..Len(Operations), b \in Operands}

\* new Date() as the en-US locale prints it
Clocks ==
  {[time |-> MorningTime, date |-> SundayDate],
   [time |-> EveningTime, date |-> MondayDate]}

\* ---------------------------------------------------------------- render
\* the unsupported card replaces the whole interface, button included
ButtonRendered ==
  isSupported

\* variant: the button stays enabled while a call is outstanding
ButtonNeverDisabled ==
  FALSE

ButtonDisabled ==
  isProcessing

\* ------------------------------------------------------------ recognizer
\* start() throws InvalidStateError unless the previous session has ended
CanStart ==
  recognition = "inactive"

\* a started session delivers results until its final result, error or end;
\* after stop() it may still return a result for the audio already captured
Delivering ==
  recognition \in {"capturing", "stopping"}

\* ------------------------------------------------------------- mount effect
mount ==
  /\ isListening = FALSE
  /\ isProcessing = FALSE
  /\ transcript = <<>>
  /\ response = <<>>
  /\ conversationHistory = <<>>
  /\ needsApiKey = FALSE
  /\ capturedHistory = <<>>
  /\ isSupported \in BOOLEAN
  /\ recognition = IF isSupported THEN "inactive" ELSE "null"
  /\ synthRef = isSupported
  /\ toast = IF isSupported THEN "none" ELSE "Browser Not Supported"
  /\ spoken = <<>>
  /\ pending = <<>>
  /\ event = [type |-> "mount"]
  /\ exchanges = 0

\* no proxy run and no engine call is being looked at
ProxyIdle ==
  /\ proxyRequest = Null
  /\ proxyKey = Undefined
  /\ proxyUpstream = Null
  /\ proxyResponse = Null

EngineIdle ==
  /\ heard = <<>>
  /\ now = Null
  /\ reply = Null

Init ==
  /\ mount
  /\ variant = "remote"
  /\ ProxyIdle
  /\ EngineIdle

\* --------------------------------------------------------- toggleListening
toggleListening ==
  IF ~isSupported \/ recognition = "null"
  THEN /\ toast' = "Not Supported"
       /\ UNCHANGED <<isListening, transcript, response, recognition>>
  ELSE IF isListening
  THEN /\ recognition' = IF recognition = "capturing" THEN "stopping" ELSE recognition
       /\ isListening' = FALSE
       /\ UNCHANGED <<transcript, response, toast>>
  ELSE /\ transcript' = <<>>
       /\ response' = <<>>
       /\ IF CanStart
          THEN recognition' = "capturing" /\ isListening' = TRUE
          ELSE UNCHANGED <<recognition, isListening>>
       /\ UNCHANGED toast

\* a click on the voice button
Click ==
  /\ ButtonRendered
  /\ event' = [type |-> "toggle"]
  /\ IF ButtonDisabled
     THEN UNCHANGED <<isListening, transcript, response, recognition, toast>>
     ELSE toggleListening
  /\ UNCHANGED <<isProcessing, isSupported, conversationHistory, needsApiKey,
                 capturedHistory, synthRef, spoken, pending, exchanges>>
  /\ UNCHANGED proxyVars
  /\ UNCHANGED engineVars

\* ----------------------------------------------------------- processCommand
\* up to the await: the invoke is in flight
processCommand(command) ==
  /\ isProcessing' = TRUE
  /\ pending' = Append(pending,
                  [message |-> command, conversationHistory |-> capturedHistory])
  /\ exchanges' = exchanges + 1

\* variant: a final result leaves isListening as it was
onresultKeepsListening(text, isFinal) ==
  /\ transcript' = text
  /\ IF isFinal
     THEN /\ UNCHANGED isListening
          /\ processCommand(text)
     ELSE UNCHANGED <<isListening, isProcessing, pending, exchanges>>

\* variant: only interim results are shown
onresultSkipsTranscript(text, isFinal) ==
  /\ IF isFinal
     THEN /\ UNCHANGED transcript
          /\ isListening' = FALSE
          /\ processCommand(text)
     ELSE /\ transcript' = text
          /\ UNCHANGED <<isListening, isProcessing, pending, exchanges>>

\* variant: every result, interim or final, ends listening
onresultAlwaysStopsListening(text, isFinal) ==
  /\ transcript' = text
  /\ isListening' = FALSE
  /\ IF isFinal
     THEN processCommand(text)
     ELSE UNCHANGED <<isProcessing, pending, exchanges>>

\* --------------------------------------------------------------- onresult
onresult(text, isFinal) ==
  /\ transcript' = text
  /\ IF isFinal
     THEN /\ isListening' = FALSE
          /\ processCommand(text)
     ELSE UNCHANGED <<isListening, isProcessing, pending, exchanges>>

Interim(text) ==
  /\ Delivering
  /\ event' = [type |-> "interim", text |-> text]
  /\ onresult(text, FALSE)
  /\ UNCHANGED <<response, isSupported, conversationHistory, needsApiKey,
                 capturedHistory, recognition, synthRef, spoken, toast>>
  /\ UNCHANGED proxyVars
  /\ UNCHANGED engineVars

\* variant: continuous = true, the session goes on after a final result
FinalContinuous(text) ==
  /\ variant = "remote"
  /\ Delivering
  /\ exchanges < MaxCalls
  /\ event' = [type |-> "final", text |-> text]
  /\ onresult(text, TRUE)
  /\ UNCHANGED recognition
  /\ UNCHANGED <<response, isSupported, conversationHistory, needsApiKey,
                 capturedHistory, synthRef, spoken, toast>>
  /\ UNCHANGED proxyVars
  /\ UNCHANGED engineVars

Final(text) ==
  /\ variant = "remote"
  /\ Delivering
  /\ exchanges < MaxCalls
  /\ event' = [type |-> "final", text |-> text]
  /\ onresult(text, TRUE)
  /\ recognition' = "closing"
  /\ UNCHANGED <<response, isSupported, conversationHistory, needsApiKey,
                 capturedHistory, synthRef, spoken, toast>>
  /\ UNCHANGED proxyVars
  /\ UNCHANGED engineVars

\* variant: onerror starts a new capture session by itself
ErrorRetries ==
  /\ Delivering
  /\ event' = [type |-> "error"]
  /\ isListening' = TRUE
  /\ toast' = "Voice Error"
  /\ recognition' = "capturing"
  /\ UNCHANGED <<isProcessing, transcript, response, isSupported,
                 conversationHistory, needsApiKey, capturedHistory, synthRef,
                 spoken, pending, exchanges>>
  /\ UNCHANGED proxyVars
  /\ UNCHANGED engineVars

\* ---------------------------------------------------------------- onerror
Error ==
  /\ Delivering
  /\ event' = [type |-> "error"]
  /\ isListening' = FALSE
  /\ toast' = "Voice Error"
  /\ recognition' = "closing"
  /\ UNCHANGED <<isProcessing, transcript, response, isSupported,
                 conversationHistory, needsApiKey, capturedHistory, synthRef,
                 spoken, pending, exchanges>>
  /\ UNCHANGED proxyVars
  /\ UNCHANGED engineVars

\* ------------------------------------------------------------------ onend
End ==
  /\ recognition \in {"capturing", "stopping", "closing"}
  /\ event' = [type |-> "end"]
  /\ isListening' = FALSE
  /\ recognition' = "inactive"
  /\ UNCHANGED <<isProcessing, transcript, response, isSupported,
                 conversationHistory, needsApiKey, capturedHistory, synthRef,
                 spoken, toast, pending, exchanges>>
  /\ UNCHANGED proxyVars
  /\ UNCHANGED engineVars

\* ------------------------------------------- processCommand, after the await
\* the HTTP request functions.invoke('chat', {body}) makes
InvokeRequest(call) ==
  [method |-> "POST",
   body |-> [json |-> "object", message |-> call.message,
             conversationHistory |->
               [tag |-> "array", items |-> call.conversationHistory]]]

\* the error object of a failed invoke, with or without a message
InvokeErrors ==
  {[tag |-> "error", message |-> FunctionsFetchError], [tag |-> "error"]}

\* what the await can resolve to: { data, error }
InvokeResults(call) ==
  {[error |-> e, data |-> Null] : e \in InvokeErrors}
  \cup {[error |-> Null, data |-> serve(InvokeRequest(call), k, u).body] :
          k \in Keys, u \in Upstreams}

\* variant: looks for 'API' instead of 'API key'
MentionsApi(obj, field) ==
  /\ field \in DOMAIN obj
  /\ Includes(obj[field], <<"A","P","I">>)

\* error.message?.includes('API key') and data.error?.includes('API key')
MentionsApiKey(obj, field) ==
  /\ field \in DOMAIN obj
  /\ Includes(obj[field], ApiKeyNeedle)

\* the rest of the try block: throws, or yields responseText
tryResult(result) ==
  IF result.error # Null
  THEN [threw |-> TRUE, error |-> result.error, setNeedsApiKey |-> FALSE]
  ELSE IF ~result.data.success /\ MentionsApiKey(result.data, "error")
  THEN [threw |-> TRUE,
        error |-> [tag |-> "error", message |-> KeyNotConfigured],
        setNeedsApiKey |-> TRUE]
  ELSE [threw |-> FALSE, responseText |-> result.data.response]

\* new SpeechSynthesisUtterance(text); rate, pitch and volume in tenths
Utterance(text, rate, pitch, volume) ==
  [text |-> text, rate |-> rate, pitch |-> pitch, volume |-> volume]

\* utterance of a normal reply
ReplyUtterance(text) ==
  Utterance(text, 9, 10, 8)

\* utterance of the catch block: the platform defaults are left in place
ErrorUtterance(text) ==
  Utterance(text, 10, 10, 10)

speak(utterance) ==
  spoken' = IF synthRef THEN Append(spoken, utterance) ELSE spoken

\* variant: the catch block stores the message without speaking it
processCommandResumeSilent(command, result) ==
  LET t == tryResult(result) IN
  /\ IF t.threw
     THEN LET keyError == MentionsApiKey(t.error, "message")
              errorResponse == IF keyError THEN ApiKeyError ELSE GenericError
          IN /\ needsApiKey' = IF t.setNeedsApiKey \/ keyError
                               THEN TRUE ELSE needsApiKey
             /\ response' = errorResponse
             /\ UNCHANGED <<spoken, conversationHistory>>
     ELSE /\ response' = t.responseText
          /\ conversationHistory' = conversationHistory \o
               <<[role |-> "user", content |-> command],
                 [role |-> "assistant", content |-> t.responseText]>>
          /\ speak(ReplyUtterance(t.responseText))
          /\ UNCHANGED needsApiKey
  /\ isProcessing' = FALSE

\* variant: a successful reply takes the setup notice away
processCommandResumeClearsKey(command, result) ==
  LET t == tryResult(result) IN
  /\ IF t.threw
     THEN LET keyError == MentionsApiKey(t.error, "message")
              errorResponse == IF keyError THEN ApiKeyError ELSE GenericError
          IN /\ needsApiKey' = IF t.setNeedsApiKey \/ keyError
                               THEN TRUE ELSE needsApiKey
             /\ response' = errorResponse
             /\ speak(ErrorUtterance(errorResponse))
             /\ UNCHANGED conversationHistory
     ELSE /\ response' = t.responseText
          /\ conversationHistory' = conversationHistory \o
               <<[role |-> "user", content |-> command],
                 [role |-> "assistant", content |-> t.responseText]>>
          /\ speak(ReplyUtterance(t.responseText))
          /\ needsApiKey' = FALSE
  /\ isProcessing' = FALSE

\* variant: the success path speaks the command it heard
processCommandResumeSpeaksCommand(command, result) ==
  LET t == tryResult(result) IN
  /\ IF t.threw
     THEN LET keyError == MentionsApiKey(t.error, "message")
              errorResponse == IF keyError THEN ApiKeyError ELSE GenericError
          IN /\ needsApiKey' = IF t.setNeedsApiKey \/ keyError
                               THEN TRUE ELSE needsApiKey
             /\ response' = errorResponse
             /\ speak(ErrorUtterance(errorResponse))
             /\ UNCHANGED conversationHistory
     ELSE /\ response' = t.responseText
          /\ conversationHistory' = conversationHistory \o
               <<[role |-> "user", content |-> command],
                 [role |-> "assistant", content |-> t.responseText]>>
          /\ speak(ReplyUtterance(command))
          /\ UNCHANGED needsApiKey
  /\ isProcessing' = FALSE

\* variant: setConversationHistory is given the new pair alone
processCommandResumeResetsHistory(command, result) ==
  LET t == tryResult(result) IN
  /\ IF t.threw
     THEN LET keyError == MentionsApiKey(t.error, "message")
              errorResponse == IF keyError THEN ApiKeyError ELSE GenericError
          IN /\ needsApiKey' = IF t.setNeedsApiKey \/ keyError
                               THEN TRUE ELSE needsApiKey
             /\ response' = errorResponse
             /\ speak(ErrorUtterance(errorResponse))
             /\ UNCHANGED conversationHistory
     ELSE /\ response' = t.responseText
          /\ conversationHistory' =
               <<[role |-> "user", content |-> command],
                 [role |-> "assistant", content |-> t.responseText]>>
          /\ speak(ReplyUtterance(t.responseText))
          /\ UNCHANGED needsApiKey
  /\ isProcessing' = FALSE

\* variant: isProcessing is cleared at the end of the try block, not in finally
processCommandResumeNoFinally(command, result) ==
  LET t == tryResult(result) IN
  IF t.threw
  THEN LET keyError == MentionsApiKey(t.error, "message")
           errorResponse == IF keyError THEN ApiKeyError ELSE GenericError
       IN /\ needsApiKey' = IF t.setNeedsApiKey \/ keyError
                            THEN TRUE ELSE needsApiKey
          /\ response' = errorResponse
          /\ speak(ErrorUtterance(errorResponse))
          /\ UNCHANGED <<conversationHistory, isProcessing>>
  ELSE /\ response' = t.responseText
       /\ conversationHistory' = conversationHistory \o
            <<[role |-> "user", content |-> command],
              [role |-> "assistant", content |-> t.responseText]>>
       /\ speak(ReplyUtterance(t.responseText))
       /\ isProcessing' = FALSE
       /\ UNCHANGED needsApiKey

processCommandResume(command, result) ==
  LET t == tryResult(result) IN
  /\ IF t.threw
     THEN LET keyError == MentionsApiKey(t.error, "message")
              errorResponse == IF keyError THEN ApiKeyError ELSE GenericError
          IN /\ needsApiKey' = IF t.setNeedsApiKey \/ keyError
                               THEN TRUE ELSE needsApiKey
             /\ response' = errorResponse
             /\ speak(ErrorUtterance(errorResponse))
             /\ UNCHANGED conversationHistory
     ELSE /\ response' = t.responseText
          /\ conversationHistory' = conversationHistory \o
               <<[role |-> "user", content |-> command],
                 [role |-> "assistant", content |-> t.responseText]>>
          /\ speak(ReplyUtterance(t.responseText))
          /\ UNCHANGED needsApiKey
  /\ isProcessing' = FALSE

\* the invoke of pending call i resolves
Complete(i, result) ==
  /\ event' = [type |-> "complete", command |-> pending[i].message,
               result |-> result]
  /\ processCommandResume(pending[i].message, result)
  /\ pending' = SubSeq(pending, 1, i - 1) \o SubSeq(pending, i + 1, Len(pending))
  /\ UNCHANGED <<isListening, transcript, isSupported, capturedHistory,
                 recognition, synthRef, toast, exchanges>>
  /\ UNCHANGED proxyVars
  /\ UNCHANGED engineVars

\* some outstanding invoke resolves, with any result it can have
Completion ==
  \E i \in 1..Len(pending) : \E result \in InvokeResults(pending[i]) :
    Complete(i, result)

Next ==
  \/ Click
  \/ \E text \in Transcripts : Interim(text)
  \/ \E text \in Transcripts : Final(text)
  \/ Error
  \/ End
  \/ Completion

Spec ==
  Init /\ [][Next]_vars

\* ====================================================== the proxy, alone
\* turn i of a sample history; every turn differs from every other
Turn(i) ==
  [role |-> IF i % 2 = 1 THEN "user" ELSE "assistant",
   content |-> NumberToString(i)]

Histories ==
  {[i \in 1..n |-> Turn(i)] : n \in 0..MaxHistory}

\* req.json(): not JSON, the JSON null, or an object
Bodies ==
  {[json |-> "invalid"], [json |-> "null"]}
  \cup {[json |-> "object", message |-> m, conversationHistory |-> h] :
          m \in Transcripts,
          h \in {Undefined, Null} \cup {[tag |-> "array", items |-> s] : s \in Histories}}

Requests ==
  {[method |-> m, body |-> b] : m \in {"POST", "OPTIONS"}, b \in Bodies}

ProxyInit ==
  /\ mount
  /\ isSupported
  /\ proxyRequest \in Requests
  /\ proxyKey \in Keys
  /\ proxyUpstream \in Upstreams
  /\ proxyResponse = Null
  /\ variant = "remote"
  /\ EngineIdle

\* the proxy handles the request
Serve ==
  /\ proxyResponse = Null
  /\ proxyResponse' = serve(proxyRequest, proxyKey, proxyUpstream)
  /\ UNCHANGED <<proxyRequest, proxyKey, proxyUpstream>>
  /\ UNCHANGED ctlVars
  /\ UNCHANGED engineVars

ProxyNext ==
  Serve

ProxySpec ==
  ProxyInit /\ [][ProxyNext]_vars

\* ============================================== the local engine, alone
EngineInit ==
  /\ mount
  /\ isSupported
  /\ variant = "local"
  /\ ProxyIdle
  /\ heard \in EngineInputs
  /\ now \in Clocks
  /\ reply = Null

\* processCommand asks the engine
Respond ==
  /\ reply = Null
  /\ reply' = [tag |-> "string", value |-> responseText(heard, now)]
  /\ UNCHANGED <<variant, heard, now>>
  /\ UNCHANGED ctlVars
  /\ UNCHANGED proxyVars

EngineNext ==
  Respond

EngineSpec ==
  EngineInit /\ [][EngineNext]_vars

\* ======================================= the controller, with either engine
\* a final result in the local component: onresult runs processCommand to
\* its end, there is no await in it
LocalFinal(text, clock) ==
  /\ variant = "local"
  /\ Delivering
  /\ exchanges < MaxCalls
  /\ event' = [type |-> "final", text |-> text]
  /\ transcript' = text
  /\ isListening' = FALSE
  /\ recognition' = "closing"
  /\ response' = responseText(text, clock)
  /\ speak(ReplyUtterance(responseText(text, clock)))
  /\ isProcessing' = FALSE
  /\ exchanges' = exchanges + 1
  /\ UNCHANGED <<isSupported, conversationHistory, needsApiKey,
                 capturedHistory, synthRef, toast, pending>>
  /\ UNCHANGED proxyVars
  /\ UNCHANGED engineVars

LocalCompletion ==
  \E text \in Transcripts : \E clock \in Clocks : LocalFinal(text, clock)

AppInit ==
  /\ mount
  /\ variant \in {"remote", "local"}
  /\ ProxyIdle
  /\ EngineIdle

AppNext ==
  \/ Next
  \/ LocalCompletion

AppSpec ==
  AppInit /\ [][AppNext]_vars

\* ================================================================ claims
Last(seq) ==
  seq[Len(seq)]

\* the proxy has answered a request other than a CORS preflight
Answered ==
  proxyResponse # Null /\ proxyRequest.method # "OPTIONS"

\* C1: in every reachable state of the controller isListening and
\* isProcessing are never both true.
C1_NeverListeningAndProcessing ==
  ~(isListening /\ isProcessing)

\* C1 witness: a final result of a listening session put the controller in
\* Processing.
C1_Witness ==
  /\ event.type = "final"
  /\ isProcessing
  /\ Len(pending) = 1

\* C2 (as claimed): the conversationHistory carried by an engine call equals
\* the controller's conversationHistory at the moment of the call.
C2_CallCarriesHistory ==
  [][event'.type = "final" /\ Len(pending') > 0
       => Last(pending').conversationHistory = conversationHistory]_vars

\* C3: the message list sent upstream is the system instruction, the last
\* min(n, 10) entries of the history in order and unmodified, then the user
\* entry with the new message; its length is min(n, 10) + 2.
C3_MessageList ==
  (Answered /\ Len(proxyResponse.fetched) > 0) =>
    LET given == proxyRequest.body.conversationHistory
        h == IF given = Undefined THEN <<>> ELSE given.items
        n == Len(h)
        k == IF n < 10 THEN n ELSE 10
        sent == proxyResponse.fetched[1].messages
    IN /\ Len(proxyResponse.fetched) = 1
       /\ Len(sent) = k + 2
       /\ sent[1] = [role |-> "system", content |-> NovaPrompt]
       /\ \A i \in 1..k : sent[1 + i] = h[n - k + i]
       /\ sent[k + 2] = [role |-> "user", content |-> proxyRequest.body.message]

\* C3 witness: a history longer than ten entries went upstream.
C3_Witness ==
  /\ Answered
  /\ Len(proxyResponse.fetched) = 1
  /\ proxyRequest.body.conversationHistory.tag = "array"
  /\ Len(proxyRequest.body.conversationHistory.items) > 10

\* the cases in which handling a request fails
C4_HandlingFailed ==
  \/ proxyRequest.body.json # "object"
  \/ proxyKey = Undefined
  \/ proxyKey.value = <<>>
  \/ proxyRequest.body.conversationHistory = Null
  \/ proxyUpstream.kind = "network"
  \/ proxyUpstream.status < 200
  \/ proxyUpstream.status > 299
  \/ proxyUpstream.data.tag = "nochoices"
  \/ proxyUpstream.data.choices = <<>>
  \/ proxyUpstream.data.choices[1] = Undefined
  \/ proxyUpstream.data.choices[1].value = <<>>

\* C4: every non-OPTIONS request is answered with status 200 and a JSON body
\* holding response and success; success is false and error is present
\* exactly when handling failed.
C4_AlwaysStatus200 ==
  Answered =>
    LET body == proxyResponse.body IN
    /\ proxyResponse.status = 200
    /\ {"response", "success"} \subseteq DOMAIN body
    /\ DOMAIN body \subseteq {"response", "success", "error"}
    /\ body.success \in BOOLEAN
    /\ Len(body.response) > 0
    /\ (~body.success) <=> ("error" \in DOMAIN body)
    /\ (~body.success) <=> C4_HandlingFailed

\* C4 witness: a request whose body is not JSON has been answered.
C4_Witness ==
  /\ Answered
  /\ proxyRequest.body.json = "invalid"
  /\ proxyResponse.status = 200
  /\ ~proxyResponse.body.success

\* C5 (as claimed): every request handled without a configured credential,
\* whatever its body, yields status 200, success=false and an error message
\* containing "API key".
C5_AnyRequestReportsApiKey ==
  (proxyResponse # Null /\ proxyKey = Undefined) =>
    /\ proxyResponse.status = 200
    /\ "success" \in DOMAIN proxyResponse.body
    /\ ~proxyResponse.body.success
    /\ "error" \in DOMAIN proxyResponse.body
    /\ Includes(proxyResponse.body.error, ApiKeyNeedle)

\* C5 (amended): every non-OPTIONS request whose body parses to a JSON
\* object, handled without a configured credential, yields status 200,
\* success=false and an error message containing "API key", and no upstream
\* call is made.
C5_ObjectRequestReportsApiKey ==
  (Answered /\ proxyKey = Undefined /\ proxyRequest.body.json = "object") =>
    /\ proxyResponse.status = 200
    /\ "success" \in DOMAIN proxyResponse.body
    /\ ~proxyResponse.body.success
    /\ "error" \in DOMAIN proxyResponse.body
    /\ Includes(proxyResponse.body.error, ApiKeyNeedle)
    /\ proxyResponse.fetched = <<>>

\* C5 witness: a well-formed request was answered with no credential set.
C5_Witness ==
  /\ Answered
  /\ proxyKey = Undefined
  /\ proxyRequest.body.json = "object"
  /\ proxyRequest.body.conversationHistory # Null

\* the invoke of the last step failed: transport error or success=false
C6_CallFailed ==
  /\ event.type = "complete"
  /\ \/ event.result.error # Null
     \/ ~event.result.data.success

\* C6: whenever an engine call fails, the controller stores a fixed fallback
\* message as the response, speaks that message and is Idle again.
C6_FailureStoresFallback ==
  C6_CallFailed =>
    /\ response \in {GenericError, ApiKeyError, ProxyApology}
    /\ Len(spoken) > 0
    /\ Last(spoken).text = response
    /\ ~isProcessing
    /\ ~isListening

\* C6 witness: a transport error of the invoke has been handled.
C6_Witness ==
  /\ event.type = "complete"
  /\ event.result.error # Null
  /\ response = GenericError

\* C7: needsApiKey becomes true only in the completion of an engine call
\* whose answer reported the missing credential; an upstream error or a
\* transport error never sets it.
C7_NeedsKeyOnlyAfterMissingCredential ==
  [][(~needsApiKey /\ needsApiKey') =>
       /\ event'.type = "complete"
       /\ event'.result.error = Null
       /\ ~event'.result.data.success
       /\ event'.result.data.error = KeyNotConfigured]_vars

\* C7 witness: the missing credential has been reported and recorded.
C7_Witness ==
  /\ needsApiKey
  /\ response = ApiKeyError

\* C8 (as claimed): a result event delivered after the user cancelled changes
\* neither transcript nor response and starts no engine call.
C8_ResultsAfterCancelDiscarded ==
  [][(recognition = "stopping" /\ event'.type \in {"interim", "final"}) =>
       /\ transcript' = transcript
       /\ response' = response
       /\ pending' = pending
       /\ ~isProcessing']_vars

\* C9: a toggle while isProcessing is true changes nothing and neither starts
\* nor stops a capture session.
C9_ToggleWhileProcessingNoOp ==
  [][(isProcessing /\ event'.type = "toggle") =>
       UNCHANGED <<isListening, isProcessing, transcript, response,
                   conversationHistory, needsApiKey, recognition, pending,
                   spoken>>]_vars

\* C9 witness: the button was clicked while an engine call was outstanding.
C9_Witness ==
  /\ event.type = "toggle"
  /\ isProcessing
  /\ Len(pending) > 0

C13_UpstreamReturnedText ==
  /\ Len(proxyResponse.fetched) = 1
  /\ proxyUpstream.kind = "http"
  /\ proxyUpstream.status >= 200
  /\ proxyUpstream.status <= 299
  /\ proxyUpstream.data.tag = "choices"
  /\ Len(proxyUpstream.data.choices) > 0
  /\ proxyUpstream.data.choices[1] # Undefined
  /\ proxyUpstream.data.choices[1].value # <<>>

\* C13: the proxy answers success=true exactly when the upstream call
\* returned a 2xx status with a non-empty completion text, and response is
\* then that text verbatim; otherwise, in particular on a non-2xx status or an
\* empty completion, it answers success=false with the fixed apology.
C13_SuccessIffCompletion ==
  Answered =>
    /\ proxyResponse.body.success <=> C13_UpstreamReturnedText
    /\ proxyResponse.body.success =>
         proxyResponse.body.response = proxyUpstream.data.choices[1].value
    /\ ~proxyResponse.body.success =>
         proxyResponse.body.response = ProxyApology

\* C13 witness: a 2xx status other than 200 came with a completion text.
C13_Witness ==
  /\ Answered
  /\ Len(proxyResponse.fetched) = 1
  /\ proxyUpstream.kind = "http"
  /\ proxyUpstream.status = 201
  /\ proxyResponse.body.success
  /\ proxyResponse.body.response = SetApiKey

\* C15: once needsApiKey is true it stays true, whatever happens next.
C15_NeedsKeyStays ==
  [][needsApiKey => needsApiKey']_vars

\* C15 witness: a later engine call succeeded and needsApiKey is still true.
C15_Witness ==
  /\ needsApiKey
  /\ event.type = "complete"
  /\ event.result.error = Null
  /\ event.result.data.success

\* C16 (as claimed): every toggle taken from Idle on a supported platform
\* starts a capture session and leaves the controller in Listening with
\* transcript and response empty.
C16_ToggleFromIdleListens ==
  [][(isSupported /\ ~isListening /\ ~isProcessing /\ event'.type = "toggle") =>
       /\ isListening'
       /\ recognition' = "capturing"
       /\ transcript' = <<>>
       /\ response' = <<>>]_vars

\* C17: a recognizer error while Listening moves the controller to Idle,
\* starts no engine call, does not restart capture, and leaves response,
\* history and needsApiKey unchanged; a session starts only on a toggle.
C17_ErrorEndsSession ==
  [][/\ (isListening /\ event'.type = "error") =>
          /\ ~isListening'
          /\ ~isProcessing'
          /\ recognition' # "capturing"
          /\ pending' = pending
          /\ exchanges' = exchanges
          /\ UNCHANGED <<response, conversationHistory, needsApiKey, spoken>>
     /\ (recognition # "capturing" /\ recognition' = "capturing") =>
          event'.type = "toggle"]_vars

\* C17 witness: a recognizer error has ended a session and was surfaced.
C17_Witness ==
  /\ event.type = "error"
  /\ toast = "Voice Error"
  /\ recognition = "closing"
  /\ ~isListening

\* C18 (as claimed): every queued utterance has rate 0.9, pitch 1 and
\* volume 0.8.
C18_FixedVoiceParameters ==
  \A i \in 1..Len(spoken) :
    spoken[i].rate = 9 /\ spoken[i].pitch = 10 /\ spoken[i].volume = 8

\* C19: an OPTIONS request yields status 200 with the permissive CORS
\* headers, whatever its body and credential, without parsing the body and
\* without an upstream call.
C19_PreflightAlwaysOk ==
  (proxyResponse # Null /\ proxyRequest.method = "OPTIONS") =>
    /\ proxyResponse.status = 200
    /\ "Access-Control-Allow-Origin" \in DOMAIN proxyResponse.headers
    /\ proxyResponse.headers["Access-Control-Allow-Origin"] = "*"
    /\ "Access-Control-Allow-Headers" \in DOMAIN proxyResponse.headers
    /\ proxyResponse.body = [text |-> OkText]
    /\ proxyResponse.fetched = <<>>

\* C19 witness: a preflight with a body that is not JSON was answered while
\* no credential was configured.
C19_Witness ==
  /\ proxyResponse # Null
  /\ proxyRequest.method = "OPTIONS"
  /\ proxyRequest.body.json = "invalid"
  /\ proxyKey = Undefined

\* C20 (as claimed): the history gets one user turn and one assistant turn
\* exactly when the engine call succeeded; after a failed call, a proxy reply
\* with success=false included, it is unchanged.
C20_HistoryOnlyOnSuccess ==
  [][event'.type = "complete" =>
       IF event'.result.error = Null /\ event'.result.data.success
       THEN conversationHistory' = conversationHistory \o
              <<[role |-> "user", content |-> event'.command],
                [role |-> "assistant", content |-> event'.result.data.response]>>
       ELSE conversationHistory' = conversationHistory]_vars

\* the reply "a <operation> b equals <value>."
ArithmeticReply(a, operation, b, value) ==
  NumberToString(a) \o <<" ">> \o operation \o <<" ">> \o NumberToString(b)
  \o Equals \o value \o <<".">>

\* a <operation> b worked out on the integers; the quotient is asked for
\* only where b divides a
ValueOf(a, operation, b) ==
  IF operation = Plus THEN a + b
  ELSE IF operation = Minus THEN a - b
  ELSE IF operation = Times THEN a * b
  ELSE a \div b

IntegerText(n) ==
  IF n < 0 THEN <<"-">> \o NumberToString(0 - n) ELSE NumberToString(n)

\* C11: for all operands a and b and every operation among plus, minus,
\* times, and divided by where b is non-zero and divides a, the local
\* engine's reply to "what is a <operation> b" is the arithmetic reply that
\* states the value of a <operation> b.
C11_ArithmeticReplyStatesValue ==
  \A a \in Operands, b \in Operands, o \in 1..Len(Operations) :
    (/\ reply # Null
     /\ heard = ArithmeticCommand(a, Operations[o], b)
     /\ (Operations[o] = DividedBy => b # 0 /\ a % b = 0))
    => reply.value = ArithmeticReply(a, Operations[o], b,
                       IntegerText(ValueOf(a, Operations[o], b)))

\* what rule i of the cascade says for the lower-cased command c, and
\* whether its condition holds
Rule(i, c, clock) ==
  CASE i = 1 -> [holds |-> Includes(c, KwHello) \/ Includes(c, KwHi),
                 says |-> Greeting]
    [] i = 2 -> [holds |-> Includes(c, KwTime),
                 says |-> TimePrefix \o clock.time \o <<".">>]
    [] i = 3 -> [holds |-> Includes(c, KwDate),
                 says |-> DatePrefix \o clock.date \o <<".">>]
    [] i = 4 -> [holds |-> Includes(c, KwWeather), says |-> WeatherReply]
    [] i = 5 -> [holds |-> Includes(c, KwRemind) \/ Includes(c, KwReminder),
                 says |-> ReminderReply]
    [] i = 6 -> [holds |-> Includes(c, KwPlayMusic) \/ Includes(c, KwPlaySong),
                 says |-> MusicReply]
    [] i = 7 -> [holds |-> Includes(c, KwCalculate) \/ Includes(c, KwMath),
                 says |-> CalculateReply]
    [] i = 8 -> [holds |-> Includes(c, KwSearch) \/ Includes(c, KwLookUp),
                 says |-> SearchReply]
    [] i = 9 -> LET m == mathMatch(c) IN
                [holds |-> m # Null,
                 says |-> IF m = Null THEN <<>>
                          ELSE ArithmeticReply(parseInt(m.num1), m.operation,
                                 parseInt(m.num2),
                                 NumberText(operationResult(parseInt(m.num1),
                                              m.operation, parseInt(m.num2))))]
    [] i = 10 -> [holds |-> TRUE,
                  says |-> FallbackPrefix \o c \o FallbackSuffix]

\* C12: the local engine returns the reply of the first rule, in the order
\* greeting, time, date, weather, reminder, music, calculate, search,
\* arithmetic pattern, fallback, whose condition the lower-cased input
\* satisfies; no later rule's reply is returned when an earlier rule
\* matches, and the fallback is returned exactly when no rule matches.
C12_FirstMatchingRuleWins ==
  reply # Null =>
    LET c == ToLowerCase(heard)
        first == CHOOSE i \in 1..10 :
                   /\ Rule(i, c, now).holds
                   /\ \A j \in 1..(i - 1) : ~Rule(j, c, now).holds
    IN /\ reply.value = Rule(first, c, now).says
       /\ \A i \in 1..9 : \A j \in (i + 1)..10 :
            Rule(i, c, now).holds => reply.value # Rule(j, c, now).says
       /\ (reply.value = Rule(10, c, now).says)
            <=> (\A i \in 1..9 : ~Rule(i, c, now).holds)

\* a command with a capital that holds both "time" and the arithmetic
\* pattern has been answered
C12_Witness ==
  /\ reply # Null
  /\ heard # ToLowerCase(heard)
  /\ Rule(2, ToLowerCase(heard), now).holds
  /\ Rule(9, ToLowerCase(heard), now).holds
  /\ reply.value = Rule(2, ToLowerCase(heard), now).says

\* the engine call started by the last final result has completed: the
\* invoke has resolved, or the local engine has returned
EngineCallCompleted ==
  \/ event.type = "complete"
  \/ variant = "local" /\ event.type = "final"

\* C14: once the engine call made for a final result has completed, with
\* success or with failure, the controller is Idle (isListening false,
\* isProcessing false) with a non-empty response and the transcript still
\* equal to the final text; the controller is in Processing only while a
\* call is outstanding.
C14_CompletionReturnsToIdle ==
  /\ EngineCallCompleted =>
       /\ ~isListening
       /\ ~isProcessing
       /\ response # <<>>
       /\ transcript = IF event.type = "complete"
                       THEN event.command ELSE event.text
  /\ isProcessing <=> Len(pending) > 0

\* C14 witness: a remote call for "hello" has failed and the controller is
\* Idle again.
C14_Witness ==
  /\ event.type = "complete"
  /\ event.result.error # Null
  /\ transcript = Hello
  /\ response = GenericError
  /\ ~isProcessing

\* C21: at most one engine call is outstanding at any time, whatever the
\* interleaving of toggles, recognizer events and completions: a second call
\* never starts before the previous one has completed.
C21_AtMostOneCallOutstanding ==
  Len(pending) <= 1

\* C21 witness: a second call is outstanding after the first has completed,
\* and the user has clicked the button while it is.
C21_Witness ==
  /\ event.type = "toggle"
  /\ isProcessing
  /\ exchanges = 2
  /\ Len(pending) = 1

\* the step completes an engine call
CompletesCall ==
  \/ event'.type = "complete"
  \/ variant = "local" /\ event'.type = "final"

\* C22: each completion of an engine call, success or failure, queues exactly
\* one utterance, whose text is the response that completion stores; no other
\* transition (toggle, interim, final of the remote variant, error, end)
\* speaks anything.
C22_OneUtterancePerCompletion ==
  [][IF CompletesCall
     THEN /\ Len(spoken') = Len(spoken) + 1
          /\ SubSeq(spoken', 1, Len(spoken)) = spoken
          /\ Last(spoken').text = response'
     ELSE spoken' = spoken]_vars

\* C22 witness: two completions have spoken, the later one a successful
\* remote reply.
C22_Witness ==
  /\ event.type = "complete"
  /\ event.result.error = Null
  /\ event.result.data.success
  /\ Len(spoken) = 2
  /\ Last(spoken).text = response

\* roles alternate user, assistant, starting with user, and the length is even
WellFormedHistory(h) ==
  /\ Len(h) % 2 = 0
  /\ \A i \in 1..Len(h) :
       h[i].role = IF i % 2 = 1 THEN "user" ELSE "assistant"

\* C23: in the remote variant the conversation history is well formed in
\* every state, and every transition keeps the earlier history as a prefix of
\* the new one; what a transition adds is one pair: the final transcript of
\* the exchange, then the response stored for it.
C23_HistoryAppendOnlyWellFormed ==
  /\ []WellFormedHistory(conversationHistory)
  /\ [][/\ Len(conversationHistory') >= Len(conversationHistory)
        /\ SubSeq(conversationHistory', 1, Len(conversationHistory))
             = conversationHistory
        /\ conversationHistory' # conversationHistory =>
             /\ event'.type = "complete"
             /\ conversationHistory' = conversationHistory \o
                  <<[role |-> "user", content |-> transcript'],
                    [role |-> "assistant", content |-> response']>>]_vars

\* C23 witness: two exchanges are in the history.
C23_Witness ==
  /\ Len(conversationHistory) = 4
  /\ event.type = "complete"

\* C24: an interim result sets transcript to the event text and leaves
\* isListening, isProcessing, response, the history and needsApiKey as they
\* were; it starts no engine call and queues no utterance.
C24_InterimUpdatesTranscriptOnly ==
  [][event'.type = "interim" =>
       /\ transcript' = event'.text
       /\ UNCHANGED <<isListening, isProcessing, response,
                      conversationHistory, needsApiKey>>
       /\ UNCHANGED <<pending, exchanges, spoken>>]_vars

\* C24 witness: an interim "hello" is displayed while the controller listens.
C24_Witness ==
  /\ event.type = "interim"
  /\ transcript = Hello
  /\ isListening
====
